---- MODULE Spec2Model ----
(***************************************************************************)
(* GottenGeography: the track-file ingestion engine (gg/xmlfiles.py, seen  *)
(* through src/tests/test_xmlfiles.py) and the per-camera settings         *)
(* (src/gg/camera.py).                                                     *)
(*                                                                         *)
(* Spec        the TrackFile lifecycle and the Global Track Store          *)
(*             (points, TrackFile.instances, TrackFile.range)              *)
(* ParserSpec  XMLSimpleParser, the expat-driven watch-list state machine  *)
(***************************************************************************)
EXTENDS Integers, Sequences, FiniteSets, TLC

\* ------------------------------------------------------------------ bounds
\* A file holds at most MaxRecords records.
MaxRecords == 2
\* The user makes at most MaxChanges changes to the cameras, and the photos are
\* added and removed in at most MaxCalls calls.
MaxChanges == 4
MaxCalls == 3
\* The tokenizer delivers at most MaxEvents events, of elements nested at most
\* MaxDepth deep.
MaxEvents == 7
MaxDepth == 3

\* Sample timestamps (Unix seconds in the program).
Times == {1, 2, 3}
\* TrackFile objects (identities).
Files == {"A", "B"}
\* The TrackFile objects where three files are loaded, in the order in which
\* they are constructed.
AllFiles == {"A", "B", "C"}
Rank(f) == CASE f = "A" -> 1 [] f = "B" -> 2 [] f = "C" -> 3
\* Coordinates are opaque to the store: every fix of file f carries the value
\* Coord(f), which tells the files apart wherever a fix is stored.
Coord(f) == f
Formats == {"gpx", "tcx", "kml", "csv"}
XmlFormats == {"gpx", "tcx", "kml"}
\* The last three characters of the uri; "txt" stands for every unsupported one.
Extensions == Formats \cup {"txt"}

None == "None"
EmptyMap == << >>

VARIABLES
    points,      \* the Global Track Store: timestamp -> Coordinate
    instances,   \* TrackFile.instances: the live TrackFiles
    range,       \* TrackFile.range: << >> or <<min, max>>
    tracks,      \* tracks[f]: the own fixes of live file f
    last,        \* history: the last completed operation and what it did
    pre,         \* history: the store as it was after load(A), in load(A); load(B)
    x,           \* the XMLSimpleParser instance
    expat,       \* the tokenizer: the open elements and the events delivered
    loading,     \* the load in progress: the file, the records read, its own map
    trackfile,   \* a TrackFile built by one adapter: its input and its own map
    cameras,     \* Camera.instances: the properties and photos of every camera
    photographs, \* what the cameras see of each Photograph: camera, timestamp
    environ,     \* os.environ['TZ']
    did,         \* history: the last camera operation
    history      \* history: the add_photo and remove_photo calls made so far

storeVars == <<points, instances, range, tracks, last, pre, loading>>
parserVars == <<x, expat>>
adapterVars == <<trackfile>>
cameraVars == <<cameras, photographs, environ, did, history>>
vars == <<points, instances, range, tracks, last, pre, loading, x, expat, trackfile,
          cameras, photographs, environ, did, history>>

\* ------------------------------------------------------------ pure helpers
Min(S) == CHOOSE m \in S : \A y \in S : m <= y
Max(S) == CHOOSE m \in S : \A y \in S : m >= y

\* dict.update(other): the keys of other overwrite those of d.
dict_update(d, other) ==
    [k \in (DOMAIN d) \cup (DOMAIN other) |->
        IF k \in DOMAIN other THEN other[k] ELSE d[k]]

\* The orders in which a set can be iterated.
Orders(S) ==
    {s \in [1..Cardinality(S) -> S] : \A i, j \in DOMAIN s : s[i] = s[j] => i = j}

\* TrackFile.update_range(): empty when no file is live, else the extremes of points.
update_range(inst, pts) ==
    IF inst = {} THEN << >> ELSE <<Min(DOMAIN pts), Max(DOMAIN pts)>>

\* points.clear(); for trackfile in TrackFile.instances: points.update(trackfile.tracks)
RECURSIVE rebuild(_, _)
rebuild(order, trk) ==
    IF order = << >> THEN EmptyMap
    ELSE dict_update(rebuild(SubSeq(order, 1, Len(order) - 1), trk),
                     trk[order[Len(order)]])

\* A destroy() that subtracts the keys of f from the store instead of re-merging.
destroy_subtract(G, f, trk, order) ==
    LET inst == G.instances \ {f}
        pts  == [t \in (DOMAIN G.points) \ (DOMAIN trk[f]) |-> G.points[t]]
    IN  [G EXCEPT !.points = pts, !.instances = inst,
                  !.range = update_range(inst, pts), !.calls = @ + 1]

\* TrackFile.destroy() on the globals G = [points, instances, range, calls];
\* calls counts the update_range() invocations. order is the iteration order of
\* the set of still-live files.
destroy(G, f, trk, order) ==
    LET inst == G.instances \ {f}
        pts  == rebuild(order, trk)
    IN  [G EXCEPT !.points = pts, !.instances = inst,
                  !.range = update_range(inst, pts), !.calls = @ + 1]

\* A clear_all() that leaves out the final points.clear().
RECURSIVE clear_all_keep(_, _, _)
clear_all_keep(G, todo, trk) ==
    IF todo = << >> THEN G
    ELSE clear_all_keep(destroy(G, Head(todo), trk, Tail(todo)), Tail(todo), trk)

\* TrackFile.clear_all(): destroy() every live file in turn, then points.clear().
\* todo is list(TrackFile.instances); each destroy() re-merges the files left.
RECURSIVE clear_all(_, _, _)
clear_all(G, todo, trk) ==
    IF todo = << >> THEN [G EXCEPT !.points = EmptyMap]
    ELSE clear_all(destroy(G, Head(todo), trk, Tail(todo)), Tail(todo), trk)

\* A test for no points that also rejects a file of a single fix.
no_points_single(trk) == Cardinality(DOMAIN trk) < 2

\* TrackFile.__init__: "if not self.tracks: raise OSError('No points found')"
no_points(trk) == DOMAIN trk = {}

\* TrackFile.load_from_file: "if len(gpx.tracks) < 2: return"
too_short(trk) == Cardinality(DOMAIN trk) < 2

\* A record as the adapter's end-of-record callback sees it: a usable fix, or a
\* record dropped for a record-level defect.
Dropped == [usable |-> FALSE]
Fix(t) == [usable |-> TRUE, t |-> t]
Records == {Dropped} \cup {Fix(t) : t \in Times}
RecordSeqs == UNION {[1..n -> Records] : n \in 0..MaxRecords}

\* What a file holds: whether its root element is the adapter's (XML only), the
\* records the parser delivers, and whether the tokenizer then reports a syntax
\* error (XML only).
FileContents(ext) ==
    IF ext \notin Formats
    THEN {[root |-> TRUE, records |-> << >>, error |-> FALSE]}
    ELSE IF ext \notin XmlFormats
    THEN {[root |-> TRUE, records |-> r, error |-> FALSE] : r \in RecordSeqs}
    ELSE {[root |-> FALSE, records |-> << >>, error |-> FALSE]}
         \cup {[root |-> TRUE, records |-> r, error |-> e] :
                    r \in RecordSeqs, e \in BOOLEAN}

\* The adapter's end-of-record callback, record by record: a usable fix goes to
\* the file's own map (a later fix of the same timestamp overwrites), a defective
\* record is dropped.
RECURSIVE parse(_, _)
parse(records, c) ==
    IF records = << >> THEN EmptyMap
    ELSE LET rec == records[Len(records)]
             trk == parse(SubSeq(records, 1, Len(records) - 1), c)
         IN  IF rec.usable THEN dict_update(trk, (rec.t :> c)) ELSE trk

Usable(records) == Cardinality({i \in DOMAIN records : records[i].usable})

\* TrackFile.__init__ once the parse has ended with trk in self.tracks: raise
\* OSError on a wrong root, a syntax error or no points, else merge self.tracks
\* into points.
trackfile_done(pts, file, trk) ==
    IF ~file.root
    THEN [error |-> "unexpected root element", tracks |-> EmptyMap, points |-> pts]
    ELSE IF file.error
    THEN [error |-> "syntax error", tracks |-> trk, points |-> pts]
    ELSE IF no_points(trk)
    THEN [error |-> "No points found", tracks |-> trk, points |-> pts]
    ELSE [error |-> None, tracks |-> trk, points |-> dict_update(pts, trk)]

\* A constructor whose callback merges every fix into points as it is parsed.
trackfile_init_eager(pts, file, c) ==
    LET trk == parse(file.records, c)
    IN  IF ~file.root
        THEN [error |-> "unexpected root element", tracks |-> EmptyMap, points |-> pts]
        ELSE IF file.error
        THEN [error |-> "syntax error", tracks |-> trk, points |-> dict_update(pts, trk)]
        ELSE IF no_points(trk)
        THEN [error |-> "No points found", tracks |-> trk, points |-> pts]
        ELSE [error |-> None, tracks |-> trk, points |-> dict_update(pts, trk)]

\* TrackFile.__init__: parse the file into self.tracks, raise OSError on a wrong
\* root, a syntax error or no points, else merge self.tracks into points.
trackfile_init(pts, file, c) ==
    LET trk == parse(file.records, c)
    IN  IF ~file.root
        THEN [error |-> "unexpected root element", tracks |-> EmptyMap, points |-> pts]
        ELSE IF file.error
        THEN [error |-> "syntax error", tracks |-> trk, points |-> pts]
        ELSE IF no_points(trk)
        THEN [error |-> "No points found", tracks |-> trk, points |-> pts]
        ELSE [error |-> None, tracks |-> trk, points |-> dict_update(pts, trk)]

\* TrackFile.load_from_file(uri) on the globals G: the subclass is looked up by
\* extension (an unknown one raises OSError before anything is constructed), the
\* file is constructed, and a file of two fixes or more is registered and the
\* range recomputed.
register(G, f, tf) ==
    IF tf.error # None
    THEN [G EXCEPT !.points = tf.points, !.error = tf.error]
    ELSE IF too_short(tf.tracks)
    THEN [G EXCEPT !.points = tf.points, !.tracks = tf.tracks]
    ELSE [G EXCEPT !.points = tf.points, !.tracks = tf.tracks,
                   !.instances = @ \cup {f},
                   !.range = update_range(G.instances \cup {f}, tf.points),
                   !.calls = @ + 1]

load_from_file(G, f, ext, file) ==
    IF ext \notin Formats
    THEN [G EXCEPT !.error = "unsupported format"]
    ELSE register(G, f, trackfile_init(G.points, file, Coord(f)))

Globals ==
    [points |-> points, instances |-> instances, range |-> range, calls |-> 0,
     error |-> None, tracks |-> EmptyMap]

\* The history record of the last operation: which it was, the file it acted on,
\* the format of a load that found no points, the timestamps of the file, the
\* records and usable fixes read, whether the parse completed, the error
\* raised, the number of update_range() calls, the files live before clear_all,
\* and whether a destroy undoes the load just before it.
NoOp == [op |-> "none", f |-> None, nofix |-> None, keys |-> {}, nrec |-> 0,
         usable |-> 0, completed |-> FALSE, reason |-> None, calls |-> 0,
         live |-> 0, roundtrip |-> FALSE]

\* No load is in progress. Of a load in progress: the TrackFile object, the
\* file, the number of records read, the object's own map, the parser's fields
\* while the end-of-record callback runs, whether that callback is yielding to
\* the host, and (history) whether the host changed the store during a yield
\* and the error the load ended with.
NotLoading ==
    [status |-> "idle", f |-> None, file |-> [root |-> TRUE, records |-> << >>,
                                              error |-> FALSE],
     i |-> 0, tracks |-> EmptyMap, parser |-> None, hook |-> FALSE,
     pumped |-> FALSE, error |-> None]

\* ------------------------------------------------------------------- Init
StoreInit ==
    /\ points = EmptyMap
    /\ instances = {}
    /\ range = << >>
    /\ tracks = [f \in AllFiles |-> EmptyMap]
    /\ last = NoOp
    /\ pre = None
    /\ loading = NotLoading


\* ------------------------------------------------------- XMLSimpleParser
\* The parser of the model is built as the GPX adapter builds it.
rootname == "gpx"
watchlist == {"trkpt"}
Tags == {"gpx", "kml", "trkpt", "ele"}
\* The attributes of a start-tag.
Attrs == {EmptyMap, [lat |-> <<"5">>]}
\* Text is a sequence of characters; a chunk is what the tokenizer hands over at
\* once.
Chunks == {<<" ">>, <<"a">>, <<"b">>}

\* str.strip() == '': the text holds whitespace only.
blank(data) == \A i \in DOMAIN data : data[i] = " "

\* XMLSimpleParser.__init__, before ParseFile runs.
NewParser ==
    [tracking |-> None, element |-> None, state |-> EmptyMap,
     StartElementHandler |-> "element_root",
     CharacterDataHandler |-> None, EndElementHandler |-> None,
     calls |-> << >>, error |-> None, raised |-> None]

NoEvent == [type |-> "none"]
\* got, kept and clean are history of the record being read: per innermost open
\* element the text the tokenizer delivered for it, the same without the
\* whitespace-only chunks, and whether every chunk so far arrived while the
\* parser's element was the innermost open element.
NewExpat == [open |-> << >>, n |-> 0, status |-> "parsing", root |-> None,
             last |-> NoEvent, got |-> EmptyMap, kept |-> EmptyMap,
             clean |-> TRUE]

\* XMLSimpleParser.__init__: "except ExpatError: raise OSError"; an exception a
\* handler raised passes through as it is.
reraise_as_ExpatError(exc) == exc
reraise(exc) == IF exc = "ExpatError" THEN "OSError" ELSE exc

\* An element_end that hands the record over but keeps the accumulated state.
element_end_keep(p, name) ==
    IF name # p.tracking THEN p
    ELSE [p EXCEPT
            !.calls = Append(@, [cb |-> "call_end", tag |-> name, arg |-> p.state]),
            !.tracking = None,
            !.element = None,
            !.CharacterDataHandler = None,
            !.EndElementHandler = None]

\* An element_data that replaces the text of the field by the latest chunk.
element_data_replace(p, data) ==
    IF blank(data) THEN p
    ELSE [p EXCEPT !.state = dict_update(@, (p.element :> data))]

\* An element_root that accepts any root element.
element_root_any(p, name, attrs) == [p EXCEPT !.StartElementHandler = "element_start"]

\* XMLSimpleParser.element_root: the first start-tag must be the root element.
element_root(p, name, attrs) ==
    IF rootname # name
    THEN [p EXCEPT !.error = "unexpected root element", !.raised = reraise("OSError")]
    ELSE [p EXCEPT !.StartElementHandler = "element_start"]

\* A start-tag inside the tracked element: it becomes the element that receives
\* the character data.
nested_start(p, name, attrs) == [p EXCEPT !.element = name]

\* An element_start that starts a record at every start-tag of the watch-list,
\* inside a record too.
element_start_nested(p, name, attrs) ==
    IF name \notin watchlist
    THEN (IF p.tracking # None THEN nested_start(p, name, attrs) ELSE p)
    ELSE [p EXCEPT
            !.calls = Append(@, [cb |-> "call_start", tag |-> name, arg |-> attrs]),
            !.tracking = name,
            !.element = name,
            !.state = dict_update(EmptyMap, attrs),
            !.CharacterDataHandler = "element_data",
            !.EndElementHandler = "element_end"]

\* An element_start that starts a record at any start-tag.
element_start_any(p, name, attrs) ==
    IF p.tracking # None THEN nested_start(p, name, attrs)
    ELSE [p EXCEPT
            !.calls = Append(@, [cb |-> "call_start", tag |-> name, arg |-> attrs]),
            !.tracking = name,
            !.element = name,
            !.state = dict_update(EmptyMap, attrs),
            !.CharacterDataHandler = "element_data",
            !.EndElementHandler = "element_end"]

\* An element_start that leaves element unset when a record starts.
element_start_unset(p, name, attrs) ==
    IF p.tracking # None THEN nested_start(p, name, attrs)
    ELSE IF name \notin watchlist THEN p
    ELSE [p EXCEPT
            !.calls = Append(@, [cb |-> "call_start", tag |-> name, arg |-> attrs]),
            !.tracking = name,
            !.state = dict_update(EmptyMap, attrs),
            !.CharacterDataHandler = "element_data",
            !.EndElementHandler = "element_end"]

\* XMLSimpleParser.element_start: a start-tag of the watch-list starts a record,
\* any other one outside a record is ignored.
element_start(p, name, attrs) ==
    IF p.tracking # None THEN nested_start(p, name, attrs)
    ELSE IF name \notin watchlist THEN p
    ELSE [p EXCEPT
            !.calls = Append(@, [cb |-> "call_start", tag |-> name, arg |-> attrs]),
            !.tracking = name,
            !.element = name,
            !.state = dict_update(EmptyMap, attrs),
            !.CharacterDataHandler = "element_data",
            !.EndElementHandler = "element_end"]

\* An element_data that keeps whitespace.
element_data_blank(p, data) ==
    [p EXCEPT !.state =
        dict_update(@, (p.element :>
            (IF p.element \in DOMAIN @ THEN @[p.element] ELSE << >>) \o data))]

\* XMLSimpleParser.element_data: text is appended to the field of the current
\* element, whitespace is dropped.
element_data(p, data) ==
    IF blank(data) THEN p
    ELSE [p EXCEPT !.state =
            dict_update(@, (p.element :>
                (IF p.element \in DOMAIN @ THEN @[p.element] ELSE << >>) \o data))]

\* An element_end that ends the record at any end-tag.
element_end_any(p, name) ==
    [p EXCEPT
        !.calls = Append(@, [cb |-> "call_end", tag |-> name, arg |-> p.state]),
        !.tracking = None,
        !.element = None,
        !.state = EmptyMap,
        !.CharacterDataHandler = None,
        !.EndElementHandler = None]

\* XMLSimpleParser.element_end: the end-tag of the tracked element hands the
\* record to call_end and stops tracking, any other end-tag is ignored.
element_end(p, name) ==
    IF name # p.tracking THEN p
    ELSE [p EXCEPT
            !.calls = Append(@, [cb |-> "call_end", tag |-> name, arg |-> p.state]),
            !.tracking = None,
            !.element = None,
            !.state = EmptyMap,
            !.CharacterDataHandler = None,
            !.EndElementHandler = None]

ParserInit ==
    /\ x = NewParser
    /\ expat = NewExpat


\* ------------------------------------------------------ dialect adapters
\* Text is a sequence of characters; a field that is absent reads as no text.
NoText == << >>
DigitChars == <<"0", "1", "2", "3", "4", "5", "6", "7", "8", "9">>
IsDigit(c) == \E i \in DOMAIN DigitChars : DigitChars[i] = c
DigitValue(c) == (CHOOSE i \in DOMAIN DigitChars : DigitChars[i] = c) - 1

\* int(text), float(text): the number the digits spell (ok), ValueError for
\* anything else (not ok: no text, a character that is no digit).
RECURSIVE digits_value(_)
digits_value(text) ==
    IF text = << >> THEN 0
    ELSE 10 * digits_value(SubSeq(text, 1, Len(text) - 1)) + DigitValue(text[Len(text)])
to_number(text) ==
    IF text = << >> \/ \E i \in DOMAIN text : ~IsDigit(text[i])
    THEN [ok |-> FALSE, v |-> 0] ELSE [ok |-> TRUE, v |-> digits_value(text)]

\* text.split(sep)
RECURSIVE split(_, _)
split(text, sep) ==
    IF \A i \in DOMAIN text : text[i] # sep THEN <<text>>
    ELSE LET k == CHOOSE i \in DOMAIN text :
                    text[i] = sep /\ \A j \in 1..(i - 1) : text[j] # sep
         IN  <<SubSeq(text, 1, k - 1)>> \o split(SubSeq(text, k + 1, Len(text)), sep)

\* state.get(key)
field(state, key) == IF key \in DOMAIN state THEN state[key] ELSE NoText

\* Polygon.append_point(latitude, longitude, elevation): an elevation that is no
\* number becomes 0.0.
append_point(lat, lon, ele) ==
    [lat |-> lat, lon |-> lon,
     ele |-> IF to_number(ele).ok THEN to_number(ele).v ELSE 0]

\* What the parser hands to the adapter's element_end for one record: the
\* attributes of the record's start-tag and the text of its leaves, read in
\* document order.
RECURSIVE read_leaves(_, _)
read_leaves(p, leaves) ==
    IF leaves = << >> THEN p
    ELSE read_leaves(element_data(nested_start(p, Head(leaves).name, EmptyMap),
                                  Head(leaves).text),
                     Tail(leaves))

\* A reading that stops at the end of the first <coordinates> leaf.
record_state_early(rec) ==
    LET at == {i \in DOMAIN rec.leaves : rec.leaves[i].name = "coordinates"}
        k  == IF at = {} THEN Len(rec.leaves) ELSE Min(at)
    IN  read_leaves([NewParser EXCEPT !.state = rec.attrs],
                    SubSeq(rec.leaves, 1, k)).state

record_state(rec) ==
    read_leaves([NewParser EXCEPT !.state = rec.attrs], rec.leaves).state

\* The texts of the four fields of a fix, as each adapter finds them.
gpx_fields(state) ==
    [time |-> field(state, "time"), lat |-> field(state, "lat"),
     lon |-> field(state, "lon"), ele |-> field(state, "ele")]
tcx_fields(state) ==
    [time |-> field(state, "Time"), lat |-> field(state, "LatitudeDegrees"),
     lon |-> field(state, "LongitudeDegrees"),
     ele |-> field(state, "AltitudeMeters")]
\* KML: <coordinates> holds "lon,lat,ele".
kml_fields(state) ==
    LET part == split(field(state, "coordinates"), ",")
        nth(i) == IF i <= Len(part) THEN part[i] ELSE NoText
    IN  [time |-> field(state, "when"), lat |-> nth(2), lon |-> nth(1),
         ele |-> nth(3)]
\* CSV: the columns are time, latitude, longitude and, optionally, elevation; a
\* row with another number of columns has no field.
csv_fields(row) ==
    LET nth(i) == IF Len(row) \in {3, 4} /\ i <= Len(row) THEN row[i] ELSE NoText
    IN  [time |-> nth(1), lat |-> nth(2), lon |-> nth(3), ele |-> nth(4)]

RecordFields(fmt, item) ==
    CASE fmt = "gpx" -> gpx_fields(record_state(item))
      [] fmt = "tcx" -> tcx_fields(record_state(item))
      [] fmt = "kml" -> kml_fields(record_state(item))
      [] fmt = "csv" -> csv_fields(item)

\* An end-of-record callback that gives up the fixes read so far when a record
\* has no usable timestamp or position.
emit_abort(trk, f) ==
    IF to_number(f.time).ok /\ to_number(f.lat).ok /\ to_number(f.lon).ok
    THEN dict_update(trk, (to_number(f.time).v :>
            append_point(to_number(f.lat).v, to_number(f.lon).v, f.ele)))
    ELSE EmptyMap

\* An end-of-record callback that also drops a record without a usable elevation.
emit_strict(trk, f) ==
    IF to_number(f.time).ok /\ to_number(f.lat).ok /\ to_number(f.lon).ok
       /\ to_number(f.ele).ok
    THEN dict_update(trk, (to_number(f.time).v :>
            append_point(to_number(f.lat).v, to_number(f.lon).v, f.ele)))
    ELSE trk

\* The end-of-record callback: a record whose timestamp, latitude or longitude
\* is no number is dropped, any other one is put into the file's own map.
emit(trk, f) ==
    IF to_number(f.time).ok /\ to_number(f.lat).ok /\ to_number(f.lon).ok
    THEN dict_update(trk, (to_number(f.time).v :>
            append_point(to_number(f.lat).v, to_number(f.lon).v, f.ele)))
    ELSE trk

\* A CSV reader that stops at the first row it cannot read.
RECURSIVE adapt_stop(_, _)
adapt_stop(fmt, items) ==
    IF items = << >> THEN EmptyMap
    ELSE LET f == RecordFields(fmt, Head(items))
         IN  IF fmt = "csv" /\ ~(to_number(f.time).ok /\ to_number(f.lat).ok
                                  /\ to_number(f.lon).ok)
             THEN EmptyMap
             ELSE dict_update(emit(EmptyMap, f), adapt_stop(fmt, Tail(items)))

\* The records (rows) of a file, read in file order into the file's own map.
RECURSIVE adapt(_, _)
adapt(fmt, items) ==
    IF items = << >> THEN EmptyMap
    ELSE emit(adapt(fmt, SubSeq(items, 1, Len(items) - 1)),
              RecordFields(fmt, items[Len(items)]))

\* TrackFile.__init__ of the adapter for fmt.
build(fmt, items) ==
    LET trk == adapt(fmt, items)
    IN  [fmt |-> fmt, file |-> items, tracks |-> trk,
         error |-> IF no_points(trk) THEN "No points found" ELSE None]

\* The files of the model.
TimeTexts == {<<"1">>, <<"2">>, <<"x">>}
EleTexts == {<<"3">>, <<"x">>}
CoordTexts == {<<"2", ",", "1", ",", "3">>, <<"2", ",", "1">>,
               <<"2", ",", "1", ",", "x">>, <<"x", ",", "1", ",", "3">>}
Leaf(n, t) == [name |-> n, text |-> t]
Opt(n, Ts) == {<< >>} \cup {<<Leaf(n, t)>> : t \in Ts}
\* Two optional leaves, in either order.
Arrangements(a, As, b, Bs) ==
    {u \o v : u \in Opt(a, As), v \in Opt(b, Bs)}
        \cup {v \o u : u \in Opt(a, As), v \in Opt(b, Bs)}
GPXRecords ==
    {[attrs |-> [lat |-> l, lon |-> <<"2">>], leaves |-> v] :
        l \in {<<"1">>, <<"x">>}, v \in Arrangements("time", TimeTexts, "ele", EleTexts)}
TCXRecords ==
    {[attrs |-> EmptyMap,
      leaves |-> t \o <<Leaf("LatitudeDegrees", l), Leaf("LongitudeDegrees", <<"2">>)>> \o e] :
        t \in Opt("Time", TimeTexts), l \in {<<"1">>, <<"x">>},
        e \in Opt("AltitudeMeters", EleTexts)}
KMLRecords ==
    {[attrs |-> EmptyMap, leaves |-> v] :
        v \in Arrangements("when", TimeTexts, "coordinates", CoordTexts)}
CSVRows ==
    {<<t, l>> : t \in TimeTexts, l \in {<<"1">>, <<"x">>}}
        \cup {<<t, l, o>> : t \in TimeTexts, l \in {<<"1">>, <<"x">>},
                            o \in {<<"2">>, <<"x">>}}
        \cup {<<t, l, o, e>> : t \in TimeTexts, l \in {<<"1">>, <<"x">>},
                               o \in {<<"2">>, <<"x">>}, e \in EleTexts}
ItemsOf(fmt) ==
    CASE fmt = "gpx" -> GPXRecords [] fmt = "tcx" -> TCXRecords
      [] fmt = "kml" -> KMLRecords [] fmt = "csv" -> CSVRows
FilesOf(fmt) == UNION {[1..n -> ItemsOf(fmt)] : n \in 0..MaxRecords}

NoTrackFile == [fmt |-> None, file |-> << >>, tracks |-> EmptyMap, error |-> None]

AdapterInit == trackfile = NoTrackFile


\* ----------------------------------------------------------------- Camera
Cameras == {"c1", "c2"}
Photos == {"p1", "p2"}
\* offset = GObject.property(type=int, minimum=-3600, maximum=3600)
MinOffset == -3600
MaxOffset == 3600
\* The values of the string properties; a string is a sequence of tokens.
Methods == {"system", "lookup", "offset", "custom"}
Zones == {<< >>, <<"America/Edmonton">>}
Regions == {<< >>, <<"Europe">>}
Cities == {<< >>, <<"Paris">>}
\* utc_offset, counted in quarters of an hour.
UtcOffsets == {-2, 0, 2}
\* The values the utc_offset selector offers: -12 to +14 hours in quarters of an
\* hour.
QuarterHours == (0 - 48)..56
\* The seconds a photographed clock is found to differ from the camera's.
ClockSeconds == {0, 90}
\* The changes the user makes to an offset.
Deltas == {-3600, 1800, 3600}

\* Camera.__init__ with the settings of the schema.
NewCamera ==
    [offset |-> 0, gst_offset |-> 0, utc_offset |-> 0, found_timezone |-> << >>,
     timezone_method |-> "system", timezone_region |-> << >>,
     timezone_city |-> << >>, photos |-> {}]

Abs(n) == IF n < 0 THEN -n ELSE n

\* str(n) of a natural number.
RECURSIVE str(_)
str(n) == IF n < 10 THEN <<DigitChars[n + 1]>>
          ELSE str(n \div 10) \o <<DigitChars[(n % 10) + 1]>>

\* 'UTC{:+}:{:02}'.format(int(hours), int(abs(minutes) * 60)) with
\* minutes, hours = modf(-float(utc_offset)): hours is the whole part, with the
\* sign of the number, minutes the fraction.
utc_string(quarters) ==
    LET n     == -quarters
        hours == IF n < 0 THEN -(Abs(n) \div 4) ELSE n \div 4
        mins  == (Abs(n) % 4) * 15
    IN  <<"UTC">> \o (IF hours < 0 THEN <<"-">> ELSE <<"+">>) \o str(Abs(hours))
            \o <<":">> \o (IF mins < 10 THEN <<"0">> ELSE << >>) \o str(mins)

\* A timezone_handler that leaves out "environ['TZ'] = ''".
timezone_stale(cam, tz) ==
    IF cam.timezone_method = "lookup" THEN cam.found_timezone
    ELSE IF cam.timezone_method = "offset" THEN utc_string(cam.utc_offset)
    ELSE IF cam.timezone_method = "custom"
            /\ cam.timezone_region # << >> /\ cam.timezone_city # << >>
    THEN cam.timezone_region \o <<"/">> \o cam.timezone_city
    ELSE tz

\* Camera.timezone_handler: the value it leaves in environ['TZ'], tz being the
\* value before.
timezone(cam, tz) ==
    IF cam.timezone_method = "lookup" THEN cam.found_timezone
    ELSE IF cam.timezone_method = "offset" THEN utc_string(cam.utc_offset)
    ELSE IF cam.timezone_method = "custom"
            /\ cam.timezone_region # << >> /\ cam.timezone_city # << >>
    THEN cam.timezone_region \o <<"/">> \o cam.timezone_city
    ELSE << >>

\* The seconds local time is ahead of UTC in a timezone.
tzshift(tz) ==
    IF tz = << >> THEN 0
    ELSE IF tz[1] = "UTC"
    THEN LET k == CHOOSE i \in DOMAIN tz : tz[i] = ":"
             secs == 3600 * digits_value(SubSeq(tz, 3, k - 1))
                        + 60 * digits_value(SubSeq(tz, k + 1, Len(tz)))
         IN  IF tz[2] = "-" THEN secs ELSE -secs
    ELSE IF tz[1] = "America/Edmonton" THEN -25200
    ELSE 3600

\* The time the camera's clock showed when the photo was taken.
Orig(photo) == IF photo = "p1" THEN 100000 ELSE 200000

\* Photograph.calculate_timestamp(offset): the clock time read in the timezone
\* of environ['TZ'], corrected by the camera's offset.
calculate_timestamp(photo, offset, tz) == Orig(photo) - tzshift(tz) + offset

\* The world the camera operations act on.
World == [cameras |-> cameras, photographs |-> photographs, environ |-> environ]

\* Camera.offset_handler: every photo of the camera is recalculated.
offset_handler(W, c) ==
    [W EXCEPT !.photographs =
        [ph \in Photos |->
            IF ph \in W.cameras[c].photos
            THEN [@[ph] EXCEPT !.timestamp =
                    calculate_timestamp(ph, W.cameras[c].offset, W.environ)]
            ELSE @[ph]]]

\* Camera.timezone_handler
timezone_handler(W, c) ==
    offset_handler([W EXCEPT !.environ = timezone(W.cameras[c], W.environ)], c)

\* Setting the offset property: the bound 'offset' setting follows it and
\* notify::offset runs offset_handler.
set_offset(W, c, value) ==
    offset_handler([W EXCEPT !.cameras[c].offset = value,
                             !.cameras[c].gst_offset = value], c)

\* A remove_photo that empties the set.
remove_photo_all(W, c, photo) ==
    [W EXCEPT !.photographs[photo].camera = None, !.cameras[c].photos = {}]

\* Camera.add_photo
add_photo(W, c, photo) ==
    [W EXCEPT !.photographs[photo].camera = c,
              !.cameras[c].photos = @ \cup {photo}]

\* Camera.remove_photo
remove_photo(W, c, photo) ==
    [W EXCEPT !.photographs[photo].camera = None,
              !.cameras[c].photos = @ \ {photo}]

\* Camera.num_photos
num_photos(cam) == Cardinality(cam.photos)

Idle == [op |-> "none", c |-> None, delta |-> 0, was |-> << >>, n |-> 0]

CameraInit ==
    /\ cameras = [c \in Cameras |-> NewCamera]
    /\ photographs = [ph \in Photos |-> [camera |-> None, timestamp |-> 0]]
    /\ environ = << >>
    /\ did = Idle
    /\ history = << >>

Init == StoreInit /\ ParserInit /\ AdapterInit /\ CameraInit

\* ---------------------------------------------------------------- actions
\* The TrackFile object the next load constructs.
NewFile == CHOOSE f \in Files \ instances : TRUE

\* TrackFile.load_from_file(uri), f being the TrackFile object it constructs.
Load(f, ext) ==
    /\ Files \ instances # {}
    /\ f = NewFile
    /\ \E file \in FileContents(ext) :
       \E G \in {load_from_file(Globals, f, ext, file)} :
         LET done == ext \in Formats /\ file.root /\ ~file.error
         IN  /\ points' = G.points
             /\ instances' = G.instances
             /\ range' = G.range
             /\ tracks' = IF f \in G.instances
                          THEN [tracks EXCEPT ![f] = G.tracks] ELSE tracks
             /\ last' = [NoOp EXCEPT
                    !.op = IF G.error = None THEN "load" ELSE "load_failed",
                    !.f = IF G.error = None THEN f ELSE None,
                    !.nofix = IF G.error = "No points found" THEN ext ELSE None,
                    !.keys = DOMAIN G.tracks,
                    !.nrec = Len(file.records),
                    !.usable = Usable(file.records),
                    !.completed = done,
                    !.reason = G.error,
                    !.calls = G.calls]
             /\ pre' = IF G.error = None /\ last.op = "load"
                       THEN <<points, range>> ELSE None
    /\ UNCHANGED <<loading, parserVars, adapterVars, cameraVars>>

\* TrackFile.destroy()
Destroy(f) ==
    /\ f \in instances
    /\ \E order \in Orders(instances \ {f}) :
       \E G \in {destroy(Globals, f, tracks, order)} :
         LET rt == last.op = "load" /\ last.f = f /\ pre # None
         IN  /\ points' = G.points
             /\ instances' = G.instances
             /\ range' = G.range
             /\ last' = [NoOp EXCEPT
                    !.op = "destroy", !.f = f, !.keys = DOMAIN tracks[f],
                    !.calls = G.calls, !.roundtrip = rt]
             /\ pre' = IF rt THEN pre ELSE None
    /\ tracks' = [tracks EXCEPT ![f] = EmptyMap]
    /\ UNCHANGED <<loading, parserVars, adapterVars, cameraVars>>

\* TrackFile.clear_all()
ClearAll ==
    /\ \E order \in Orders(instances) :
       \E G \in {clear_all(Globals, order, tracks)} :
             /\ points' = G.points
             /\ instances' = G.instances
             /\ range' = G.range
             /\ last' = [NoOp EXCEPT !.op = "clear_all", !.calls = G.calls,
                                     !.live = Cardinality(instances)]
    /\ tracks' = [f \in AllFiles |-> EmptyMap]
    /\ pre' = None
    /\ UNCHANGED <<loading, parserVars, adapterVars, cameraVars>>

Next ==
    \/ \E f \in Files, ext \in Extensions : Load(f, ext)
    \/ \E f \in Files : Destroy(f)
    \/ ClearAll

Spec == Init /\ [][Next]_vars

\* ------------------------------------------ three files with common fixes
\* The GPX files that parse without an error.
TrackContents ==
    {[root |-> TRUE, records |-> r, error |-> FALSE] : r \in RecordSeqs}

\* TrackFile.load_from_file(uri) of such a file, f being the TrackFile object it
\* constructs: an object constructed later has a higher rank.
LoadTrack(f, file) ==
    /\ f \notin instances
    /\ \A g \in instances : Rank(g) < Rank(f)
    /\ \E G \in {load_from_file(Globals, f, "gpx", file)} :
         /\ points' = G.points
         /\ instances' = G.instances
         /\ range' = G.range
         /\ tracks' = IF f \in G.instances
                      THEN [tracks EXCEPT ![f] = G.tracks] ELSE tracks
         /\ last' = [NoOp EXCEPT
                !.op = IF G.error = None THEN "load" ELSE "load_failed",
                !.f = IF G.error = None THEN f ELSE None,
                !.nofix = IF G.error = "No points found" THEN "gpx" ELSE None,
                !.keys = DOMAIN G.tracks,
                !.nrec = Len(file.records),
                !.usable = Usable(file.records),
                !.completed = TRUE,
                !.reason = G.error,
                !.calls = G.calls]
         /\ pre' = IF G.error = None /\ last.op = "load"
                   THEN <<points, range>> ELSE None
    /\ UNCHANGED <<loading, parserVars, adapterVars, cameraVars>>

MergeNext ==
    \/ \E f \in AllFiles, file \in TrackContents : LoadTrack(f, file)
    \/ \E f \in AllFiles : Destroy(f)

MergeSpec == Init /\ [][MergeNext]_vars

\* -------------------------------------- a load that yields to the host
\* TrackFile.load_from_file(uri) constructs the TrackFile object f and the parse
\* of the file begins.
BeginLoad(f, file) ==
    /\ loading.status # "parsing"
    /\ Files \ instances # {}
    /\ f = NewFile
    /\ loading' = [NotLoading EXCEPT !.status = "parsing", !.f = f, !.file = file]
    /\ UNCHANGED <<points, instances, range, tracks, last, pre,
                   parserVars, adapterVars, cameraVars>>

\* The parser hands the next record to the end-of-record callback: a usable fix
\* goes to the file's own map, and TrackFile.element_end runs the yield hook,
\* "while Gtk.events_pending(): Gtk.main_iteration()".
ParseRecord ==
    /\ loading.status = "parsing"
    /\ loading.file.root
    /\ loading.i < Len(loading.file.records)
    /\ LET rec == loading.file.records[loading.i + 1]
       IN  loading' = [loading EXCEPT
                !.i = @ + 1,
                !.tracks = IF rec.usable
                           THEN dict_update(@, (rec.t :> Coord(loading.f))) ELSE @,
                !.parser = element_start(
                              [NewParser EXCEPT !.StartElementHandler = "element_start"],
                              "trkpt", EmptyMap),
                !.hook = TRUE]
    /\ UNCHANGED <<points, instances, range, tracks, last, pre,
                   parserVars, adapterVars, cameraVars>>

\* During the yield the host destroys a live file.
YieldDestroy(g) ==
    /\ loading.status = "parsing"
    /\ loading.hook
    /\ g \in instances
    /\ \E order \in Orders(instances \ {g}) :
       \E G \in {destroy(Globals, g, tracks, order)} :
             /\ points' = G.points
             /\ instances' = G.instances
             /\ range' = G.range
             /\ last' = [NoOp EXCEPT
                    !.op = "destroy", !.f = g, !.keys = DOMAIN tracks[g],
                    !.calls = G.calls]
    /\ pre' = None
    /\ tracks' = [tracks EXCEPT ![g] = EmptyMap]
    /\ loading' = [loading EXCEPT !.pumped = TRUE]
    /\ UNCHANGED <<parserVars, adapterVars, cameraVars>>

\* During the yield the host runs TrackFile.clear_all().
YieldClearAll ==
    /\ loading.status = "parsing"
    /\ loading.hook
    /\ \E order \in Orders(instances) :
       \E G \in {clear_all(Globals, order, tracks)} :
             /\ points' = G.points
             /\ instances' = G.instances
             /\ range' = G.range
             /\ last' = [NoOp EXCEPT !.op = "clear_all", !.calls = G.calls,
                                     !.live = Cardinality(instances)]
    /\ pre' = None
    /\ tracks' = [f \in AllFiles |-> EmptyMap]
    /\ loading' = [loading EXCEPT !.pumped = TRUE]
    /\ UNCHANGED <<parserVars, adapterVars, cameraVars>>

\* The parse has ended: the constructor ends and load_from_file registers the
\* file.
FinishLoad ==
    /\ loading.status = "parsing"
    /\ loading.i = Len(loading.file.records) \/ ~loading.file.root
    /\ \E G \in {register(Globals, loading.f,
                        trackfile_done(points, loading.file, loading.tracks))} :
         /\ points' = G.points
         /\ instances' = G.instances
         /\ range' = G.range
         /\ tracks' = IF loading.f \in G.instances
                      THEN [tracks EXCEPT ![loading.f] = G.tracks] ELSE tracks
         /\ last' = [NoOp EXCEPT
                !.op = IF G.error = None THEN "load" ELSE "load_failed",
                !.f = IF G.error = None THEN loading.f ELSE None,
                !.nofix = IF G.error = "No points found" THEN "gpx" ELSE None,
                !.keys = DOMAIN G.tracks,
                !.nrec = Len(loading.file.records),
                !.usable = Usable(loading.file.records),
                !.completed = loading.file.root /\ ~loading.file.error,
                !.reason = G.error,
                !.calls = G.calls]
         /\ loading' = [loading EXCEPT !.status = "done", !.hook = FALSE,
                                       !.parser = None, !.error = G.error]
    /\ pre' = None
    /\ UNCHANGED <<parserVars, adapterVars, cameraVars>>

ReentrantNext ==
    \/ \E f \in Files, file \in FileContents("gpx") : BeginLoad(f, file)
    \/ ParseRecord
    \/ \E g \in Files : YieldDestroy(g)
    \/ YieldClearAll
    \/ FinishLoad

ReentrantSpec == Init /\ [][ReentrantNext]_vars

\* ------------------------------------------------ the parse of one XML file
Delivering == expat.status = "parsing" /\ expat.n < MaxEvents

\* The innermost element open in the document.
Innermost == expat.open[Len(expat.open)]

\* text appended to the text kept for element e.
Accumulate(m, e, text) ==
    dict_update(m, (e :> (IF e \in DOMAIN m THEN m[e] ELSE << >>) \o text))

\* What the tokenizer is after an event, given what the handler left in p.
After(p, ev, open) ==
    [expat EXCEPT
        !.open = open,
        !.n = @ + 1,
        !.last = ev,
        !.root = IF expat.root = None /\ ev.type = "start" THEN ev.name ELSE @,
        !.got = IF x.tracking = None /\ p.tracking # None THEN EmptyMap
                ELSE IF ev.type = "data" /\ x.tracking # None
                THEN Accumulate(@, Innermost, ev.data) ELSE @,
        !.kept = IF x.tracking = None /\ p.tracking # None THEN EmptyMap
                 ELSE IF ev.type = "data" /\ x.tracking # None /\ ~blank(ev.data)
                 THEN Accumulate(@, Innermost, ev.data) ELSE @,
        !.clean = IF x.tracking = None /\ p.tracking # None THEN TRUE
                  ELSE IF ev.type = "data" /\ x.tracking # None
                          /\ ~blank(ev.data) /\ Innermost # x.element
                  THEN FALSE ELSE @,
        !.status = IF p.error # None THEN "error"
                   ELSE IF open = << >> THEN "done" ELSE "parsing"]

\* The tokenizer reads a start-tag and calls parser.StartElementHandler.
StartTag(name, attrs) ==
    /\ Delivering
    /\ Len(expat.open) < MaxDepth
    /\ \E p \in {IF x.StartElementHandler = "element_root"
                 THEN element_root(x, name, attrs)
                 ELSE element_start(x, name, attrs)} :
         /\ x' = p
         /\ expat' = After(p, [type |-> "start", name |-> name, attrs |-> attrs],
                           Append(expat.open, name))
    /\ UNCHANGED <<storeVars, adapterVars, cameraVars>>

\* The tokenizer reads character data and calls parser.CharacterDataHandler.
CharData(data) ==
    /\ Delivering
    /\ expat.open # << >>
    /\ \E p \in {IF x.CharacterDataHandler = None THEN x ELSE element_data(x, data)} :
         /\ x' = p
         /\ expat' = After(p, [type |-> "data", data |-> data], expat.open)
    /\ UNCHANGED <<storeVars, adapterVars, cameraVars>>

\* The tokenizer reads the end-tag of the innermost open element and calls
\* parser.EndElementHandler; the end-tag of the root ends the document.
EndTag ==
    /\ Delivering
    /\ expat.open # << >>
    /\ LET name == expat.open[Len(expat.open)]
       IN  \E p \in {IF x.EndElementHandler = None THEN x ELSE element_end(x, name)} :
             /\ x' = p
             /\ expat' = After(p, [type |-> "end", name |-> name],
                               SubSeq(expat.open, 1, Len(expat.open) - 1))
    /\ UNCHANGED <<storeVars, adapterVars, cameraVars>>

\* The tokenizer raises ExpatError, which __init__ re-raises as OSError.
SyntaxError ==
    /\ expat.status = "parsing"
    /\ x' = [x EXCEPT !.error = "syntax error", !.raised = reraise("ExpatError")]
    /\ expat' = [expat EXCEPT !.status = "error", !.last = [type |-> "error"]]
    /\ UNCHANGED <<storeVars, adapterVars, cameraVars>>

ParserNext ==
    \/ \E name \in Tags, attrs \in Attrs : StartTag(name, attrs)
    \/ \E data \in Chunks : CharData(data)
    \/ EndTag
    \/ SyntaxError

ParserSpec == Init /\ [][ParserNext]_vars

\* ------------------------------------------------- one file, one adapter
GPXFile ==
    /\ trackfile = NoTrackFile
    /\ \E file \in FilesOf("gpx") : trackfile' = build("gpx", file)
    /\ UNCHANGED <<storeVars, parserVars, cameraVars>>

TCXFile ==
    /\ trackfile = NoTrackFile
    /\ \E file \in FilesOf("tcx") : trackfile' = build("tcx", file)
    /\ UNCHANGED <<storeVars, parserVars, cameraVars>>

KMLFile ==
    /\ trackfile = NoTrackFile
    /\ \E file \in FilesOf("kml") : trackfile' = build("kml", file)
    /\ UNCHANGED <<storeVars, parserVars, cameraVars>>

CSVFile ==
    /\ trackfile = NoTrackFile
    /\ \E file \in FilesOf("csv") : trackfile' = build("csv", file)
    /\ UNCHANGED <<storeVars, parserVars, cameraVars>>

AdapterNext == GPXFile \/ TCXFile \/ KMLFile \/ CSVFile

AdapterSpec == Init /\ [][AdapterNext]_vars

\* ------------------------------------------------------------ the cameras
Others == <<storeVars, parserVars, adapterVars>>
Changing == did.n < MaxChanges

Becomes(W, op, c, delta) ==
    /\ cameras' = W.cameras
    /\ photographs' = W.photographs
    /\ environ' = W.environ
    /\ did' = [op |-> op, c |-> c, delta |-> delta, was |-> environ, n |-> did.n + 1]
    /\ UNCHANGED <<history, Others>>

\* A photo is loaded: it joins its camera and its timestamp is calculated with
\* the camera's offset.
ReadPhoto(photo, c) ==
    /\ Changing
    /\ photographs[photo].camera = None
    /\ \A k \in Cameras : photo \notin cameras[k].photos
    /\ \E W \in {offset_handler(add_photo(World, c, photo), c)} :
            Becomes(W, "read", c, 0)

\* camera.offset += delta
SetOffset(c, delta) ==
    /\ Changing
    /\ cameras[c].offset + delta >= MinOffset
    /\ cameras[c].offset + delta <= MaxOffset
    /\ \E W \in {set_offset(World, c, cameras[c].offset + delta)} :
            Becomes(W, "offset", c, delta)

\* camera.timezone_method = method: notify::timezone-method runs timezone_handler.
SetTimezoneMethod(c, method) ==
    /\ Changing
    /\ method # cameras[c].timezone_method
    /\ \E W \in {timezone_handler(
                    [World EXCEPT !.cameras[c].timezone_method = method], c)} :
            Becomes(W, "timezone", c, 0)

\* camera.timezone_city = city: notify::timezone-city runs timezone_handler.
SetTimezoneCity(c, city) ==
    /\ Changing
    /\ city # cameras[c].timezone_city
    /\ \E W \in {timezone_handler(
                    [World EXCEPT !.cameras[c].timezone_city = city], c)} :
            Becomes(W, "timezone", c, 0)

\* camera.utc_offset = value: notify::utc-offset runs timezone_handler.
SetUtcOffset(c, quarters) ==
    /\ Changing
    /\ quarters # cameras[c].utc_offset
    /\ \E W \in {timezone_handler(
                    [World EXCEPT !.cameras[c].utc_offset = quarters], c)} :
            Becomes(W, "timezone", c, 0)

\* camera.timezone_region = region: no handler is connected to it.
SetTimezoneRegion(c, region) ==
    /\ Changing
    /\ region # cameras[c].timezone_region
    /\ Becomes([World EXCEPT !.cameras[c].timezone_region = region], "region", c, 0)

\* Camera.set_all_found_timezone(timezone)
SetAllFoundTimezone(zone) ==
    /\ Changing
    /\ \E c \in Cameras : cameras[c].found_timezone # zone
    /\ Becomes([World EXCEPT !.cameras =
                    [c \in Cameras |-> [@[c] EXCEPT !.found_timezone = zone]]],
               "found", None, 0)

\* Camera.timezone_handler_all(): every camera's handler, in the order of
\* Camera.instances.
TimezoneHandlerAll ==
    /\ Changing
    /\ \E order \in Orders(Cameras) :
       \E W \in {timezone_handler(timezone_handler(World, order[1]), order[2])} :
            Becomes(W, "timezone", order[2], 0)

CameraNext ==
    \/ \E photo \in Photos, c \in Cameras : ReadPhoto(photo, c)
    \/ \E c \in Cameras, delta \in Deltas : SetOffset(c, delta)
    \/ \E c \in Cameras, method \in Methods : SetTimezoneMethod(c, method)
    \/ \E c \in Cameras, city \in Cities : SetTimezoneCity(c, city)
    \/ \E c \in Cameras, quarters \in UtcOffsets : SetUtcOffset(c, quarters)
    \/ \E c \in Cameras, region \in Regions : SetTimezoneRegion(c, region)
    \/ \E zone \in Zones : SetAllFoundTimezone(zone)
    \/ TimezoneHandlerAll

CameraSpec == Init /\ [][CameraNext]_vars

\* ------------------------------------------- the photos of the cameras
Calling == Len(history) < MaxCalls

AddPhoto(c, photo) ==
    /\ Calling
    /\ \E W \in {add_photo(World, c, photo)} :
         /\ cameras' = W.cameras
         /\ photographs' = W.photographs
    /\ history' = Append(history, [op |-> "add_photo", c |-> c, photo |-> photo])
    /\ UNCHANGED <<environ, did, Others>>

RemovePhoto(c, photo) ==
    /\ Calling
    /\ \E W \in {remove_photo(World, c, photo)} :
         /\ cameras' = W.cameras
         /\ photographs' = W.photographs
    /\ history' = Append(history, [op |-> "remove_photo", c |-> c, photo |-> photo])
    /\ UNCHANGED <<environ, did, Others>>

PhotoNext ==
    \/ \E c \in Cameras, photo \in Photos : AddPhoto(c, photo)
    \/ \E c \in Cameras, photo \in Photos : RemovePhoto(c, photo)

PhotoSpec == Init /\ [][PhotoNext]_vars

\* ------------------------------------------------ the clock of a camera
\* Camera.get_offset_from_clock_photo: the offset is set to the minutes and
\* seconds the clocks differ by, utc_offset to the hours, and timezone_method
\* to 'offset'; each assignment runs the handler connected to the property.
GetOffsetFromClockPhoto(c, seconds, quarters) ==
    /\ did = Idle
    /\ \E W1 \in {set_offset(World, c, seconds)} :
       \E W2 \in {timezone_handler(
                        [W1 EXCEPT !.cameras[c].utc_offset = quarters], c)} :
       \E W3 \in {timezone_handler(
                        [W2 EXCEPT !.cameras[c].timezone_method = "offset"], c)} :
            Becomes(W3, "clock", c, seconds)

ClockNext ==
    \E c \in Cameras, seconds \in ClockSeconds, quarters \in QuarterHours :
        GetOffsetFromClockPhoto(c, seconds, quarters)

ClockSpec == Init /\ [][ClockNext]_vars

\* ------------------------------------------------- the Global Track Store
Keys(m) == DOMAIN m
LiveKeys == UNION {Keys(tracks[f]) : f \in instances}
Extremes(m) == <<Min(Keys(m)), Max(Keys(m))>>

\* C1: in every reachable state range is empty iff the store is empty, and
\* otherwise range is (minimum key, maximum key) of the store.
C1_RangeInvariant ==
    /\ (range = << >>) <=> (Keys(points) = {})
    /\ Keys(points) # {} => range = Extremes(points)

\* C2: in every reachable state the keys of the store are exactly the union of
\* the timestamp keys of the live (registered) TrackFiles.
C2_StoreIsUnionOfLive == Keys(points) = LiveKeys

\* C3: after load(A); load(B); destroy(B) the store and the range are what they
\* were after load(A) alone (pre holds them), and once every live file has been
\* destroyed the store and the range are empty.
C3_RoundTrip ==
    /\ (last.op = "destroy" /\ last.roundtrip) => <<points, range>> = pre
    /\ (last.op = "destroy" /\ instances = {}) =>
            (Keys(points) = {} /\ range = << >>)

\* C4: destroy(F) deregisters F and leaves the store the re-merge of the files
\* still live: every stored fix is one a live file holds, every timestamp of a
\* live file is stored (so one F shares with a live file stays, one only F
\* held is gone), and the range is recomputed, once.
C4_DestroyRemerges ==
    last.op = "destroy" =>
        /\ last.f \notin instances
        /\ \A t \in Keys(points) :
              \E g \in instances : t \in Keys(tracks[g]) /\ points[t] = tracks[g][t]
        /\ \A t \in last.keys : (t \in Keys(points)) <=> (t \in LiveKeys)
        /\ LiveKeys \subseteq Keys(points)
        /\ range = IF instances = {} THEN << >> ELSE Extremes(points)
        /\ last.calls = 1

\* A destroyed file that shared a timestamp with a live file and held one alone.
C4_Witness ==
    /\ last.op = "destroy"
    /\ last.keys \cap LiveKeys # {}
    /\ last.keys \ LiveKeys # {}

\* C5: a load that raises FormatError (unsupported extension, wrong root, syntax
\* error part-way, no usable record) leaves the store, the range and the live
\* files exactly as they were, whatever had been parsed before.
C5_FailedLoadChangesNothing ==
    [][last'.op = "load_failed" => UNCHANGED <<points, instances, range, tracks>>]_vars

\* A load that failed on a syntax error after usable records had been parsed,
\* with files loaded before it.
C5_Witness ==
    /\ last.op = "load_failed"
    /\ last.reason = "syntax error"
    /\ last.usable > 0
    /\ instances # {}

Merged == \A t \in last.keys : t \in Keys(points) /\ points[t] = Coord(last.f)
Registered ==
    /\ last.f \in instances
    /\ Keys(tracks[last.f]) = last.keys
    /\ range = Extremes(points)
    /\ last.calls = 1

\* C6: every load that completes without FormatError, of a file with at least
\* one fix, has merged the file's fixes into the store, recomputed the range
\* and registered the file.
C6_LoadMergesAndRegisters ==
    (last.op = "load" /\ Cardinality(last.keys) >= 1) => (Merged /\ Registered)

\* C7: in every format a parse that completes with no usable record raises
\* 'No points found', however many records were dropped, and a parse with a
\* usable record does not; the error is raised by completed parses only.
C7_NoPointsFound ==
    /\ last.completed =>
            ((last.op = "load_failed" /\ last.reason = "No points found")
                <=> last.usable = 0)
    /\ last.reason = "No points found" => (last.completed /\ last.nofix \in Formats)

\* A CSV file all of whose records were dropped.
C7_Witness ==
    /\ last.reason = "No points found"
    /\ last.nofix = "csv"
    /\ last.nrec = MaxRecords

\* C8 (as claimed): clear-all leaves no live file, an empty store and an empty
\* range, and recomputes the range exactly once.
C8_Original ==
    last.op = "clear_all" =>
        /\ instances = {} /\ Keys(points) = {} /\ range = << >>
        /\ last.calls = 1

\* C8 (amended): clear-all leaves no live file, an empty store and an empty
\* range; the range is recomputed once for every file that was live.
C8_ClearAll ==
    last.op = "clear_all" =>
        /\ instances = {} /\ Keys(points) = {} /\ range = << >>
        /\ last.calls = last.live

\* clear-all with two live files.
C8_Witness == last.op = "clear_all" /\ last.live >= 2

\* ------------------------------------------------------- XMLSimpleParser
SeekingRoot == x.StartElementHandler = "element_root"
BetweenElements == x.StartElementHandler = "element_start" /\ x.tracking = None
NoHandlers == x.CharacterDataHandler = None /\ x.EndElementHandler = None

\* C9: while the parser seeks the root no callback has been invoked; a first
\* start-tag that is not the root tag raises FormatError and leaves the root
\* handler installed, with no callback invoked; a first start-tag that is the
\* root tag installs the main start handler.
C9_SeekingRoot ==
    /\ SeekingRoot => (x.calls = << >> /\ x.tracking = None /\ NoHandlers)
    /\ (expat.root # None /\ expat.root # rootname) =>
            /\ x.error = "unexpected root element"
            /\ expat.status = "error"
            /\ SeekingRoot
    /\ expat.root = rootname => ~SeekingRoot

\* A document whose root element is not the adapter's.
C9_Witness ==
    /\ expat.last.type = "start"
    /\ expat.root = "kml"
    /\ x.error = "unexpected root element"

\* The step in which the tokenizer delivers the start-tag of a watched element
\* to a parser that is between elements.
WatchedStart ==
    /\ BetweenElements
    /\ expat'.n = expat.n + 1
    /\ expat'.last.type = "start"
    /\ expat'.last.name \in watchlist

\* What every such step does, whatever it leaves in state.
StartsRecord ==
    /\ x'.calls = Append(x.calls, [cb |-> "call_start", tag |-> expat'.last.name,
                                   arg |-> expat'.last.attrs])
    /\ x'.tracking = expat'.last.name
    /\ x'.element = expat'.last.name
    /\ x'.CharacterDataHandler = "element_data"
    /\ x'.EndElementHandler = "element_end"

\* C10 (as claimed): a watched start-tag between elements invokes on_start(tag,
\* attrs) exactly once, sets tracking and element to the tag, installs the
\* character-data and end-tag handlers, and resets state to the empty mapping.
C10_Original ==
    [][WatchedStart => (StartsRecord /\ x'.state = EmptyMap)]_vars

\* C10 (amended): ... and sets state to exactly the attributes of the start-tag,
\* so that nothing accumulated for an earlier record is in it.
C10_WatchedStart ==
    [][WatchedStart => (StartsRecord /\ x'.state = expat'.last.attrs)]_vars

\* The start of a second record, with attributes, after a record that had
\* accumulated text.
C10_Witness ==
    /\ expat.last.type = "start"
    /\ expat.last.attrs # EmptyMap
    /\ Len(x.calls) = 3
    /\ x.calls[2].cb = "call_end"
    /\ "trkpt" \in DOMAIN x.calls[2].arg
    /\ x.calls[3].cb = "call_start"
    /\ x.tracking = expat.last.name
    /\ x.state = expat.last.attrs

\* The step in which the tokenizer delivers the end-tag of the tracked element.
WatchedEnd ==
    /\ x.tracking # None
    /\ expat'.n = expat.n + 1
    /\ expat'.last.type = "end"
    /\ expat'.last.name = x.tracking

\* C11: inside a watched element an end-tag whose name equals tracking invokes
\* on_end(tag, state) exactly once with the state accumulated for the record;
\* afterwards tracking and element are None, state is empty, the character-data
\* and end-tag handlers are uninstalled and the parser is between elements.
C11_WatchedEnd ==
    [][WatchedEnd =>
        /\ x'.calls = Append(x.calls, [cb |-> "call_end", tag |-> x.tracking,
                                       arg |-> x.state])
        /\ x'.tracking = None
        /\ x'.element = None
        /\ x'.state = EmptyMap
        /\ x'.CharacterDataHandler = None
        /\ x'.EndElementHandler = None
        /\ x'.StartElementHandler = "element_start"]_vars

LastCall == x.calls[Len(x.calls)]
\* The last callback was on_end: a record has been handed over and none started
\* since.
JustEnded == x.calls # << >> /\ LastCall.cb = "call_end"

\* A record with attributes and text has been handed to on_end.
C11_Witness ==
    /\ JustEnded
    /\ expat.last.type = "end"
    /\ "lat" \in DOMAIN LastCall.arg
    /\ "ele" \in DOMAIN LastCall.arg
    /\ x.tracking = None /\ x.state = EmptyMap

C13_SyntaxErrorIsFormatError ==
    expat.last.type = "error" => (x.raised = "OSError" /\ expat.status = "error")

\* A syntax error inside a watched element.
C13_Witness ==
    /\ expat.last.type = "error"
    /\ x.tracking # None
    /\ x.raised = "OSError"

\* ------------------------------------------------------ dialect adapters
Built(fmt) == trackfile.fmt = fmt
Item(i) == trackfile.file[i]
Raw(i) == RecordFields(trackfile.fmt, Item(i))
\* Record i has a timestamp, a latitude and a longitude that are numbers.
Usable_(i) ==
    to_number(Raw(i).time).ok /\ to_number(Raw(i).lat).ok /\ to_number(Raw(i).lon).ok
\* Record i is the last usable one of its timestamp in the file.
LastOf(i) ==
    /\ Usable_(i)
    /\ \A j \in DOMAIN trackfile.file :
          (j > i /\ Usable_(j)) => to_number(Raw(j).time).v # to_number(Raw(i).time).v
UsableTimes == {to_number(Raw(i).time).v : i \in {j \in DOMAIN trackfile.file : Usable_(j)}}

IsWhen(leaf) == leaf.name = "when"
IsCoordinates(leaf) == leaf.name = "coordinates"
\* The record with its <when> leaves before its <coordinates> leaves.
Canonical(rec) ==
    [rec EXCEPT !.leaves = SelectSeq(@, IsWhen) \o SelectSeq(@, IsCoordinates)]
CanonicalFile(file) == [i \in DOMAIN file |-> Canonical(file[i])]

\* C14: the timeline of a KML file is that of the file with the <when> and
\* <coordinates> leaves of every record put in canonical order.
C14_KmlOrderIndependent ==
    Built("kml") => trackfile.tracks = adapt("kml", CanonicalFile(trackfile.file))

\* A KML file with a usable record whose <coordinates> precedes its <when>.
C14_Witness ==
    /\ Built("kml")
    /\ \E i \in DOMAIN trackfile.file :
          /\ Usable_(i)
          /\ Len(Item(i).leaves) = 2
          /\ Item(i).leaves[1].name = "coordinates"

\* A CSV row with the wrong number of columns, or whose timestamp, latitude or
\* longitude is no number.
Malformed(row) ==
    \/ Len(row) \notin {3, 4}
    \/ ~to_number(row[1]).ok \/ ~to_number(row[2]).ok \/ ~to_number(row[3]).ok
WellFormed(row) == ~Malformed(row)

\* C15: the timeline of a CSV file is that of the file without its malformed
\* rows, every well-formed row is in it, and an error is raised only when no
\* well-formed row remains.
C15_CsvPartialRecovery ==
    Built("csv") =>
        /\ trackfile.tracks = adapt("csv", SelectSeq(trackfile.file, WellFormed))
        /\ Keys(trackfile.tracks) =
              {to_number(Item(i)[1]).v :
                    i \in {j \in DOMAIN trackfile.file : WellFormed(Item(j))}}
        /\ (trackfile.error # None) <=> (SelectSeq(trackfile.file, WellFormed) = << >>)

\* A CSV file with a malformed row before a well-formed one.
C15_Witness ==
    /\ Built("csv")
    /\ Len(trackfile.file) >= 2
    /\ Malformed(Item(1))
    /\ WellFormed(Item(2))
    /\ trackfile.error = None

HasTime(i) == to_number(Raw(i).time).ok

\* C16: in a GPX or TCX file a record without a parseable timestamp is dropped
\* without an error, and every other usable record is emitted under its own
\* timestamp with its own coordinate, wherever the defective record sits.
C16_NoTimestampDropped ==
    (Built("gpx") \/ Built("tcx")) =>
        /\ Keys(trackfile.tracks) = UsableTimes
        /\ \A i \in DOMAIN trackfile.file :
              LastOf(i) =>
                 LET c == trackfile.tracks[to_number(Raw(i).time).v]
                 IN  c.lat = to_number(Raw(i).lat).v /\ c.lon = to_number(Raw(i).lon).v
        /\ (trackfile.error # None) <=> (UsableTimes = {})

\* A GPX file whose first record has no parseable timestamp and whose second
\* record is usable.
C16_Witness ==
    /\ Built("gpx")
    /\ Len(trackfile.file) >= 2
    /\ ~HasTime(1)
    /\ Usable_(2)
    /\ trackfile.error = None

\* C17: in every format a usable record whose elevation is absent or
\* unparsable is emitted with ele = 0 and its own timestamp, latitude and
\* longitude; a record with an elevation keeps it.
C17_ElevationDefaultsToZero ==
    trackfile.fmt \in Formats =>
        \A i \in DOMAIN trackfile.file :
            LastOf(i) =>
                /\ to_number(Raw(i).time).v \in Keys(trackfile.tracks)
                /\ trackfile.tracks[to_number(Raw(i).time).v] =
                      [lat |-> to_number(Raw(i).lat).v,
                       lon |-> to_number(Raw(i).lon).v,
                       ele |-> IF to_number(Raw(i).ele).ok
                               THEN to_number(Raw(i).ele).v ELSE 0]

\* A KML file with a usable record whose elevation is no number.
C17_Witness ==
    /\ Built("kml")
    /\ \E i \in DOMAIN trackfile.file :
          /\ LastOf(i)
          /\ Raw(i).ele # NoText
          /\ ~to_number(Raw(i).ele).ok
          /\ trackfile.tracks[to_number(Raw(i).time).v].ele = 0

\* ------------------------------------------------------------ the cameras
\* C18: whenever a camera's offset is changed by delta, the new value staying
\* within [-3600, 3600], the camera's offset, its persisted 'offset' setting
\* and the timestamp of every photo of that camera all change by exactly
\* delta, whatever changes were made before.
C18_OffsetChange ==
    [][(did'.n # did.n /\ did'.op = "offset") =>
          LET c == did'.c
              delta == did'.delta
          IN  /\ cameras'[c].offset - cameras[c].offset = delta
              /\ cameras'[c].gst_offset - cameras[c].gst_offset = delta
              /\ \A ph \in cameras[c].photos :
                    photographs'[ph].timestamp - photographs[ph].timestamp = delta
      ]_vars

\* The photos a camera was given and not since taken away, read off the calls.
Held(c) ==
    {ph \in Photos :
        \E i \in DOMAIN history :
            /\ history[i] = [op |-> "add_photo", c |-> c, photo |-> ph]
            /\ \A j \in DOMAIN history :
                  j > i => history[j] # [op |-> "remove_photo", c |-> c, photo |-> ph]}

\* C19: after any sequence of add_photo and remove_photo calls on a camera,
\* num_photos is the number of distinct photos added and not since removed.
C19_NumPhotos ==
    \A c \in Cameras : num_photos(cameras[c]) = Cardinality(Held(c))

\* A photo was added twice, an absent one removed, and the count is one.
C19_Witness ==
    \E c \in Cameras, ph, other \in Photos :
        /\ other # ph
        /\ history = <<[op |-> "add_photo", c |-> c, photo |-> ph],
                       [op |-> "add_photo", c |-> c, photo |-> ph],
                       [op |-> "remove_photo", c |-> c, photo |-> other]>>
        /\ num_photos(cameras[c]) = 1

\* C20: after timezone_handler has run, TZ is found_timezone when the method is
\* 'lookup', a string starting with 'UTC' when it is 'offset', 'region/city'
\* when it is 'custom' with both region and city set, and empty otherwise; and
\* every photo of the camera has been recalculated.
C20_TimezoneHandler ==
    did.op = "timezone" =>
        LET cam == cameras[did.c]
        IN  /\ cam.timezone_method = "lookup" => environ = cam.found_timezone
            /\ cam.timezone_method = "offset" =>
                    (environ # << >> /\ environ[1] = "UTC")
            /\ (cam.timezone_method = "custom" /\ cam.timezone_region # << >>
                    /\ cam.timezone_city # << >>) =>
                    environ = cam.timezone_region \o <<"/">> \o cam.timezone_city
            /\ (cam.timezone_method = "custom"
                    /\ (cam.timezone_region = << >> \/ cam.timezone_city = << >>)) =>
                    environ = << >>
            /\ cam.timezone_method \notin {"lookup", "offset", "custom"} =>
                    environ = << >>
            /\ \A ph \in cam.photos :
                    photographs[ph].timestamp =
                        calculate_timestamp(ph, cam.offset, environ)

\* The handler ran for a camera that has a photo and whose settings name no
\* timezone, while TZ held one: TZ is empty afterwards.
C20_Witness ==
    /\ did.op = "timezone"
    /\ did.was # << >>
    /\ environ = << >>
    /\ cameras[did.c].photos # {}

\* ------------------------------------------- XMLSimpleParser: what it ignores
\* The parser's fields the claims speak of are left as they were.
SameParser ==
    /\ x'.tracking = x.tracking
    /\ x'.element = x.element
    /\ x'.state = x.state
    /\ x'.StartElementHandler = x.StartElementHandler
    /\ x'.CharacterDataHandler = x.CharacterDataHandler
    /\ x'.EndElementHandler = x.EndElementHandler

\* The step in which a start-tag that is not in the watch-list is delivered to a
\* parser that is between elements.
UnwatchedStart ==
    /\ BetweenElements
    /\ expat'.n = expat.n + 1
    /\ expat'.last.type = "start"
    /\ expat'.last.name \notin watchlist

\* C21: between elements, a start-tag whose name is not in the watch-list
\* invokes no callback and leaves tracking, element, state and the installed
\* handlers unchanged.
C21_UnwatchedStartIgnored ==
    [][UnwatchedStart => (x'.calls = x.calls /\ SameParser)]_vars

\* An unwatched start-tag was delivered after a record had been handed over.
C21_Witness ==
    /\ JustEnded
    /\ expat.last.type = "start"
    /\ expat.last.name \notin watchlist
    /\ BetweenElements

\* The step in which an end-tag other than the tracked element's is delivered
\* inside a watched element.
OtherEnd ==
    /\ x.tracking # None
    /\ expat'.n = expat.n + 1
    /\ expat'.last.type = "end"
    /\ expat'.last.name # x.tracking

\* C22: inside a watched element an end-tag whose name differs from tracking
\* does not invoke on_end and leaves tracking and state unchanged; on_end is
\* invoked only for end-tags whose name equals tracking.
C22_OtherEndIgnored ==
    [][/\ OtherEnd => (x'.calls = x.calls /\ x'.tracking = x.tracking
                        /\ x'.state = x.state)
       /\ (Len(x'.calls) > Len(x.calls)
            /\ x'.calls[Len(x'.calls)].cb = "call_end") =>
                (expat'.last.type = "end" /\ expat'.last.name = x.tracking)]_vars

\* The end-tag of a nested leaf that had text was delivered; the record goes on.
C22_Witness ==
    /\ expat.last.type = "end"
    /\ x.tracking # None
    /\ expat.last.name # x.tracking
    /\ expat.last.name \in DOMAIN x.state
    /\ LastCall.cb = "call_start"

\* The step in which a whitespace-only chunk is delivered.
BlankChunk ==
    /\ expat'.n = expat.n + 1
    /\ expat'.last.type = "data"
    /\ blank(expat'.last.data)

\* C23: a character-data chunk that consists only of whitespace leaves state
\* unchanged: it neither creates a key for the current element nor alters an
\* existing value.
C23_BlankChunkIgnored ==
    [][BlankChunk => x'.state = x.state]_vars

\* Whitespace was delivered for a leaf that has no text yet, in a record that
\* has text for another field.
C23_Witness ==
    /\ expat.last.type = "data"
    /\ blank(expat.last.data)
    /\ x.tracking # None
    /\ x.element \notin DOMAIN x.state
    /\ x.tracking \in DOMAIN x.state

\* ------------------------------------------------ fixes of the same time
\* The live files that hold timestamp t and the one of them merged last.
Holders(t) == {f \in instances : t \in DOMAIN tracks[f]}
LastMerged(t) == CHOOSE f \in Holders(t) : \A g \in Holders(t) : Rank(g) <= Rank(f)

\* C24: when two live files contain the same timestamp, the store maps it to the
\* coordinate of the file merged most recently among the live files, and the
\* load raised no error; this still holds after a different file has been
\* destroyed and the store rebuilt from the remaining live files.
C24_LastMergedWins ==
    \A t \in Times :
        Cardinality(Holders(t)) >= 2 =>
            /\ t \in DOMAIN points
            /\ points[t] = Coord(LastMerged(t))

\* ------------------------------------------------ a load that yields
\* The step in which the host, during a yield of the parse, destroys a live file
\* or runs clear-all.
HostStep ==
    /\ loading.status = "parsing" /\ loading.hook
    /\ loading'.status = "parsing"
    /\ last' # last

\* A load has ended without an error, and during a yield of its parse the host
\* destroyed a live file or ran clear-all.
LoadedAcrossYield ==
    loading.status = "done" /\ loading.pumped /\ loading.error = None

\* C25: if at a yield of the parse of file F the host destroys another live file
\* or runs clear-all, the parser's tracking, element and state are unchanged by
\* the yield, the parse of F completes with the same local timeline as without
\* the yield, and after F's load the store contains all of F's fixes and range
\* satisfies the range invariant.
C25_ReentrantYield ==
    /\ [][HostStep =>
            /\ loading'.parser = loading.parser
            /\ loading'.tracks = loading.tracks
            /\ loading'.i = loading.i]_vars
    /\ [](LoadedAcrossYield =>
            /\ loading.tracks = parse(loading.file.records, Coord(loading.f))
            /\ \A t \in DOMAIN loading.tracks :
                    t \in DOMAIN points /\ points[t] = loading.tracks[t]
            /\ C1_RangeInvariant)

\* --------------------------------------- XMLSimpleParser: nested elements
\* The step in which a chunk that is not whitespace only is delivered inside a
\* watched element.
ChunkInside ==
    /\ x.tracking # None
    /\ expat'.n = expat.n + 1
    /\ expat'.last.type = "data"
    /\ ~blank(expat'.last.data)

\* C26: inside a watched element each character-data chunk is accumulated under
\* the name of the innermost element that is open when the chunk arrives; text
\* that follows the end-tag of a nested child is not added to the child's field.
C26_InnermostElement ==
    [][ChunkInside => x'.state = Accumulate(x.state, Innermost, expat'.last.data)]_vars

\* The step in which a start-tag of the watch-list is delivered inside an
\* element that is already tracked.
WatchedStartInside ==
    /\ x.tracking # None
    /\ expat'.n = expat.n + 1
    /\ expat'.last.type = "start"
    /\ expat'.last.name \in watchlist

\* C27: over any event stream the on_start and on_end calls strictly alternate,
\* starting with on_start; an element is tracked exactly between an on_start
\* and its on_end; a start-tag of the watch-list inside a tracked element does
\* not invoke on_start; every on_end carries the tag of the preceding on_start.
C27_CallsAlternate ==
    /\ [](/\ \A i \in DOMAIN x.calls :
                /\ x.calls[i].cb = IF i % 2 = 1 THEN "call_start" ELSE "call_end"
                /\ i % 2 = 0 => x.calls[i].tag = x.calls[i - 1].tag
          /\ (x.tracking # None) <=> (Len(x.calls) % 2 = 1)
          /\ x.tracking # None => x.tracking = LastCall.tag)
    /\ [][WatchedStartInside => x'.calls = x.calls]_vars

\* A start-tag of the watch-list was delivered inside the second record.
C27_Witness ==
    /\ expat.last.type = "start"
    /\ expat.last.name \in watchlist
    /\ Len(x.calls) = 3
    /\ Len(expat.open) = 3
    /\ expat.open[2] = x.tracking

\* ------------------------------------------------- the photos of a camera
\* The cameras whose photo set holds the photo.
Owners(ph) == {c \in Cameras : ph \in cameras[c].photos}

\* C28: after any sequence of add_photo and remove_photo calls over several
\* cameras each photo is in the photo set of at most one camera, photo.camera is
\* c exactly when the photo is in c.photos, and None when it is in no set.
C28_OneCameraPerPhoto ==
    \A ph \in Photos :
        /\ Cardinality(Owners(ph)) <= 1
        /\ \A c \in Cameras : photographs[ph].camera = c <=> ph \in cameras[c].photos
        /\ Owners(ph) = {} => photographs[ph].camera = None

\* ------------------------------------------------- the TZ of a UTC offset
\* The parts of a TZ value 'UTC{sign}{h}:{mm}'.
TzColon(tz) == CHOOSE i \in DOMAIN tz : tz[i] = ":"
TzSign(tz) == tz[2]
TzHours(tz) == digits_value(SubSeq(tz, 3, TzColon(tz) - 1))
TzMinutes(tz) == digits_value(SubSeq(tz, TzColon(tz) + 1, Len(tz)))

\* C29: in 'offset' mode the TZ string 'UTC{sign}{h}:{mm}' encodes the negated
\* utc_offset exactly, for every utc_offset from -12 to +14 in quarter hours: h
\* and mm give its magnitude, the sign is the opposite of its sign, and no other
\* utc_offset gives the same string.
C29_TzEncodesUtcOffset ==
    did.op = "clock" =>
        LET q == cameras[did.c].utc_offset
        IN  /\ environ[1] = "UTC"
            /\ Len(environ) - TzColon(environ) = 2
            /\ TzMinutes(environ) < 60
            /\ 60 * TzHours(environ) + TzMinutes(environ) = 15 * Abs(q)
            /\ q > 0 => TzSign(environ) = "-"
            /\ q < 0 => TzSign(environ) = "+"
            /\ \A r \in QuarterHours : r # q => utc_string(r) # environ

====
